---- MODULE Spec2Model ----
(***************************************************************************)
(* Internal service authentication of the telemetry service:               *)
(*   - infra/security/internal-jwt (looksLikeJwt, verifyInternalJwt),      *)
(*   - middleware/internal-service-auth.middleware                         *)
(*     (tokensMatch, getAuthMode, internalServiceAuthMiddleware),          *)
(*   - retention/gateway-request-logs-retention                            *)
(*     (startGatewayRequestLogsRetention: runNow, stop).                   *)
(*                                                                         *)
(* Strings that the code splits on "." are sequences of segments; a        *)
(* segment records what base64url-decoding and JSON.parse make of it.      *)
(* HMAC-SHA256 is the ideal keyed hash: two digests are equal exactly when *)
(* key and message are equal.                                              *)
(***************************************************************************)
EXTENDS Integers, Sequences, FiniteSets, TLC

VARIABLES
    env,        \* process.env: INTERNAL_AUTH_MODE, INTERNAL_JWT_SIGNING_KEY, INTERNAL_SERVICE_TOKEN
    startEnv,   \* process.env as it was when the process started
    now,        \* Math.floor(Date.now() / 1000)
    header,     \* the request's X-Internal-Service-Token header (NoToken: absent)
    ctx,        \* the request context store: c.get("requestId")
    pc,         \* "idle" | "pending" | "done" | "verified"
    requestId,  \* the middleware's local requestId (line 75)
    result,     \* the VerifyInternalJwtResult of the last verifyInternalJwt call
    res,        \* the response the middleware produced itself (status 0: none)
    handlerRan, \* next() was invoked: the protected handler ran
    calls,      \* the calls the middleware made, in order, with what they returned
    logs,       \* console.warn / console.error entries, in order
    requests,   \* the requests handled at the same time, each with its own Context
    timer,      \* retention scheduler: the interval timer is set (line 25)
    running,    \* retention scheduler: the running flag (line 26)
    runs        \* retention scheduler: the invocations of runNow, in order

vars ==
    <<env, startEnv, now, header, ctx, pc, requestId, result, res, handlerRan,
      calls, logs, requests, timer, running, runs>>

----------------------------------------------------------------------------
(* Bounds of the model and constants of the program *)

T0 == 200
MaxTicks == 2
DefaultClockSkewSeconds == 30
DefaultMaxAgeSeconds == 120
DigestB64Len == 43
ShortLen == 5

SERVICE_KEY == "telemetry-service"
Undefined == "<undefined>"

----------------------------------------------------------------------------
(* JavaScript values, as far as the verifier looks at them *)

JsUndefined == [t |-> "undefined", n |-> 0, s |-> ""]
JsNull == [t |-> "null", n |-> 0, s |-> ""]
JsBool(b) == [t |-> "boolean", n |-> IF b THEN 1 ELSE 0, s |-> ""]
JsNum(k) == [t |-> "number", n |-> k, s |-> ""]
JsStr(str) == [t |-> "string", n |-> 0, s |-> str]
JsArray == [t |-> "array", n |-> 0, s |-> ""]

FieldNames == {"alg", "internal", "aud", "iat", "exp", "requestId"}
NoFields == [k \in FieldNames |-> JsUndefined]

\* The outcome of JSON.parse on a segment's decoded text.
JsonInvalid == [t |-> "invalid", n |-> 0, s |-> "", f |-> NoFields]
JsonValue(v) == [t |-> v.t, n |-> v.n, s |-> v.s, f |-> NoFields]
JsonObject(fields) == [t |-> "object", n |-> 0, s |-> "", f |-> fields]

\* !x
Falsy(v) ==
    \/ v.t \in {"undefined", "null"}
    \/ v.t = "boolean" /\ v.n = 0
    \/ v.t = "number" /\ v.n = 0
    \/ v.t = "string" /\ v.s = ""

\* x.name: undefined on everything that is not an object with that field
Get(v, name) == IF v.t = "object" THEN v.f[name] ELSE JsUndefined

\* !s for a string-or-undefined such as an environment variable
FalsyStr(str) == str \in {Undefined, ""}

----------------------------------------------------------------------------
(* Segments and tokens *)

NoMac == <<>>
EmptySeg == [txt |-> "", len |-> 0, json |-> JsonInvalid, mac |-> NoMac]
TextSeg(str, l) == [txt |-> str, len |-> l, json |-> JsonInvalid, mac |-> NoMac]
JsonSeg(str, j) == [txt |-> str, len |-> ShortLen, json |-> j, mac |-> NoMac]

NoToken == <<>>
EmptyToken == <<EmptySeg>>

\* !provided, !legacyToken
FalsyToken(tok) == tok = NoToken \/ tok = EmptyToken

\* createHmac("sha256", key).update(msg).digest()
Hmac(key, msg) == <<key, msg>>

----------------------------------------------------------------------------
(* infra/security/internal-jwt *)

\* base64UrlEncode of a digest: DigestB64Len characters that are no JSON.
base64UrlEncode(digest) ==
    [txt |-> "", len |-> DigestB64Len, json |-> JsonInvalid, mac |-> digest]

\* base64UrlDecode(input).toString("utf8") followed by JSON.parse: the JSON
\* value, or JsonInvalid where JSON.parse throws.
base64UrlDecodeJson(input) == input.json

\* try { JSON.parse(decode(input)) } catch { null }
parseBase64UrlJson(input) ==
    LET j == base64UrlDecodeJson(input)
    IN  IF j.t = "invalid" THEN JsonValue(JsNull) ELSE j

verifySignature(signingInput, signature, signingKey) ==
    LET expected == Hmac(signingKey, signingInput)
        expectedEncoded == base64UrlEncode(expected)
    IN  IF expectedEncoded.len # signature.len
        THEN FALSE
        ELSE expectedEncoded = signature

\* token.split(".")
Split(token) == token

\* Mutant: any header that parses counts, with or without alg.
looksLikeJwtAnyHeader(token) ==
    LET parts == Split(token)
    IN  IF Len(parts) # 3
        THEN FALSE
        ELSE LET hdr == parseBase64UrlJson(parts[1])
             IN  hdr.t # "null"

looksLikeJwt(token) ==
    LET parts == Split(token)
    IN  IF Len(parts) # 3
        THEN FALSE
        ELSE LET hdr == parseBase64UrlJson(parts[1])
             IN  hdr.t # "null" /\ Get(hdr, "alg").t = "string"

NoPayload == JsonValue(JsUndefined)
Invalid(code) == [valid |-> FALSE, payload |-> NoPayload, error |-> code]
Valid(payload) == [valid |-> TRUE, payload |-> payload, error |-> ""]
NoResult == [valid |-> FALSE, payload |-> NoPayload, error |-> "<not called>"]

\* x.name throws a TypeError when x is null or undefined; the exception leaves
\* verifyInternalJwt, which has no try around its claim checks.
ThrowsOnAccess(v) == v.t \in {"null", "undefined"}
ThrewTypeError == [valid |-> FALSE, payload |-> NoPayload, error |-> "<TypeError>"]

\* VerifyInternalJwtOptions with the defaults of lines 152-157 applied.
Options(expectedAudience, t) ==
    [expectedAudience |-> expectedAudience, now |-> t,
     clockSkewSeconds |-> DefaultClockSkewSeconds,
     maxAgeSeconds |-> DefaultMaxAgeSeconds]

\* Line 194: payload.internal !== true
NotInternal(internal) == ~(internal.t = "boolean" /\ internal.n = 1)

\* Mutant: any string audience is taken.
AudienceMatchesAny(aud, options) == aud.t = "string"

\* Line 199: payload.aud !== expectedAudience, negated
AudienceMatches(aud, options) ==
    aud.t = "string" /\ aud.s = options.expectedAudience

\* Mutant: the clock skew is subtracted.
IssuedInFutureSkewSign(iat, options) ==
    iat.n > options.now - options.clockSkewSeconds

\* Line 207: payload.iat > now + clockSkewSeconds
IssuedInFuture(iat, options) ==
    iat.n > options.now + options.clockSkewSeconds

\* Mutant: a token of exactly the maximum age is too old.
IssuedTooLongAgoInclusive(iat, options) ==
    iat.n <= options.now - options.maxAgeSeconds

\* Line 210: payload.iat < now - maxAgeSeconds
IssuedTooLongAgo(iat, options) ==
    iat.n < options.now - options.maxAgeSeconds

\* Mutant: only the boundary second itself is rejected.
ExpiredAtBoundaryOnly(exp, options) ==
    options.now = exp.n + options.clockSkewSeconds

\* Mutant: the boundary second is still accepted.
ExpiredExclusive(exp, options) ==
    options.now > exp.n + options.clockSkewSeconds

\* Line 218: now >= payload.exp + clockSkewSeconds
Expired(exp, options) ==
    options.now >= exp.n + options.clockSkewSeconds

\* Mutant: the empty string passes as a request id.
HasRequestIdAnyString(rid) == rid.t = "string"

\* Line 223: typeof payload.requestId !== "string" || length === 0, negated
HasRequestId(rid) == rid.t = "string" /\ rid.s # ""

\* Mutant: the audience error names the audience that was found.
verifyClaimsEchoAudience(payload, options) ==
    LET internal == Get(payload, "internal")
        aud == Get(payload, "aud")
        iat == Get(payload, "iat")
        exp == Get(payload, "exp")
        rid == Get(payload, "requestId")
    IN  IF ThrowsOnAccess(payload)
        THEN ThrewTypeError
        ELSE IF NotInternal(internal)
        THEN Invalid("not_internal_token")
        ELSE IF ~AudienceMatches(aud, options)
        THEN Invalid(aud.s)
        ELSE IF iat.t # "number"
        THEN Invalid("missing_iat")
        ELSE IF IssuedInFuture(iat, options)
        THEN Invalid("iat_future")
        ELSE IF IssuedTooLongAgo(iat, options)
        THEN Invalid("iat_too_old")
        ELSE IF exp.t # "number"
        THEN Invalid("missing_exp")
        ELSE IF Expired(exp, options)
        THEN Invalid("token_expired")
        ELSE IF ~HasRequestId(rid)
        THEN Invalid("missing_request_id")
        ELSE Valid(payload)

\* Mutant: the audience is checked before the internal marker.
verifyClaimsAudienceFirst(payload, options) ==
    LET internal == Get(payload, "internal")
        aud == Get(payload, "aud")
        iat == Get(payload, "iat")
        exp == Get(payload, "exp")
        rid == Get(payload, "requestId")
    IN  IF ThrowsOnAccess(payload)
        THEN ThrewTypeError
        ELSE IF ~(aud.t = "string" /\ aud.s = options.expectedAudience)
        THEN Invalid("audience_mismatch")
        ELSE IF ~(internal.t = "boolean" /\ internal.n = 1)
        THEN Invalid("not_internal_token")
        ELSE IF iat.t # "number"
        THEN Invalid("missing_iat")
        ELSE IF iat.n > options.now + options.clockSkewSeconds
        THEN Invalid("iat_future")
        ELSE IF iat.n < options.now - options.maxAgeSeconds
        THEN Invalid("iat_too_old")
        ELSE IF exp.t # "number"
        THEN Invalid("missing_exp")
        ELSE IF options.now >= exp.n + options.clockSkewSeconds
        THEN Invalid("token_expired")
        ELSE IF rid.t # "string" \/ rid.s = ""
        THEN Invalid("missing_request_id")
        ELSE Valid(payload)

\* The checks on the parsed payload, lines 193-227.
verifyClaims(payload, options) ==
    LET internal == Get(payload, "internal")
        aud == Get(payload, "aud")
        iat == Get(payload, "iat")
        exp == Get(payload, "exp")
        rid == Get(payload, "requestId")
    IN  IF ThrowsOnAccess(payload)
        THEN ThrewTypeError
        ELSE IF NotInternal(internal)
        THEN Invalid("not_internal_token")
        ELSE IF ~AudienceMatches(aud, options)
        THEN Invalid("audience_mismatch")
        ELSE IF iat.t # "number"
        THEN Invalid("missing_iat")
        ELSE IF IssuedInFuture(iat, options)
        THEN Invalid("iat_future")
        ELSE IF IssuedTooLongAgo(iat, options)
        THEN Invalid("iat_too_old")
        ELSE IF exp.t # "number"
        THEN Invalid("missing_exp")
        ELSE IF Expired(exp, options)
        THEN Invalid("token_expired")
        ELSE IF ~HasRequestId(rid)
        THEN Invalid("missing_request_id")
        ELSE Valid(payload)

\* A helper call made by verifyInternalJwt, with what it returned.
HelperCall(op, ret) == [op |-> op, ret |-> ret]

\* What verifySignature calls, lines 108-120: one HMAC, of the signing input;
\* timingSafeEqual on the encoded digest and the signature as given, when
\* they are of the same length.
verifySignatureCalls(signingInput, signature, signingKey) ==
    LET expectedEncoded == base64UrlEncode(Hmac(signingKey, signingInput))
        hashed == <<HelperCall("createHmac", "signingInput")>>
    IN  IF expectedEncoded.len # signature.len
        THEN hashed
        ELSE Append(hashed, HelperCall("timingSafeEqual",
                        IF expectedEncoded = signature THEN "true" ELSE "false"))
Run(jwtResult, helperCalls) == [result |-> jwtResult, calls |-> helperCalls]

\* Mutant: the signature is verified before the algorithm is looked at.
verifyPartsRunSignatureFirst(parts, signingKey, options) ==
    LET encodedHeader == parts[1]
        encodedPayload == parts[2]
        encodedSignature == parts[3]
        hdr == parseBase64UrlJson(encodedHeader)
        alg == Get(hdr, "alg")
        signingInput == <<encodedHeader, encodedPayload>>
        signed == verifySignature(signingInput, encodedSignature, signingKey)
        payload == parseBase64UrlJson(encodedPayload)
        c1 == <<HelperCall("parseBase64UrlJson", "header")>>
        c2 == Append(c1, HelperCall("verifySignature",
                                    IF signed THEN "true" ELSE "false"))
                 \o verifySignatureCalls(signingInput, encodedSignature, signingKey)
        c3 == Append(c2, HelperCall("parseBase64UrlJson", "payload"))
    IN  IF Falsy(hdr)
        THEN Run(Invalid("invalid_header"), c1)
        ELSE IF ~signed
        THEN Run(Invalid("invalid_signature"), c2)
        ELSE IF ~(alg.t = "string" /\ alg.s = "HS256")
        THEN Run(Invalid("unsupported_algorithm"), c2)
        ELSE IF Falsy(payload)
        THEN Run(Invalid("invalid_payload"), c3)
        ELSE Run(verifyClaims(payload, options), c3)

\* Mutant: the parsed payload is used without the null check.
verifyPartsRunNoPayloadCheck(parts, signingKey, options) ==
    LET encodedHeader == parts[1]
        encodedPayload == parts[2]
        encodedSignature == parts[3]
        hdr == parseBase64UrlJson(encodedHeader)
        alg == Get(hdr, "alg")
        signingInput == <<encodedHeader, encodedPayload>>
        signed == verifySignature(signingInput, encodedSignature, signingKey)
        payload == parseBase64UrlJson(encodedPayload)
        c1 == <<HelperCall("parseBase64UrlJson", "header")>>
        c2 == Append(c1, HelperCall("verifySignature",
                                    IF signed THEN "true" ELSE "false"))
                 \o verifySignatureCalls(signingInput, encodedSignature, signingKey)
        c3 == Append(c2, HelperCall("parseBase64UrlJson", "payload"))
    IN  IF Falsy(hdr)
        THEN Run(Invalid("invalid_header"), c1)
        ELSE IF ~(alg.t = "string" /\ alg.s = "HS256")
        THEN Run(Invalid("unsupported_algorithm"), c1)
        ELSE IF ~signed
        THEN Run(Invalid("invalid_signature"), c2)
        ELSE Run(verifyClaims(payload, options), c3)

\* Header, algorithm, signature and payload parse, lines 170-191, and then
\* the claims: the result and the helper calls made on the way.
verifyPartsRun(parts, signingKey, options) ==
    LET encodedHeader == parts[1]
        encodedPayload == parts[2]
        encodedSignature == parts[3]
        hdr == parseBase64UrlJson(encodedHeader)
        alg == Get(hdr, "alg")
        signingInput == <<encodedHeader, encodedPayload>>
        signed == verifySignature(signingInput, encodedSignature, signingKey)
        payload == parseBase64UrlJson(encodedPayload)
        c1 == <<HelperCall("parseBase64UrlJson", "header")>>
        c2 == Append(c1, HelperCall("verifySignature",
                                    IF signed THEN "true" ELSE "false"))
                 \o verifySignatureCalls(signingInput, encodedSignature, signingKey)
        c3 == Append(c2, HelperCall("parseBase64UrlJson", "payload"))
    IN  IF Falsy(hdr)
        THEN Run(Invalid("invalid_header"), c1)
        ELSE IF ~(alg.t = "string" /\ alg.s = "HS256")
        THEN Run(Invalid("unsupported_algorithm"), c1)
        ELSE IF ~signed
        THEN Run(Invalid("invalid_signature"), c2)
        ELSE IF Falsy(payload)
        THEN Run(Invalid("invalid_payload"), c3)
        ELSE Run(verifyClaims(payload, options), c3)

\* Mutant: the payload is parsed before the signature is verified.
verifyPartsPayloadFirst(parts, signingKey, options) ==
    LET encodedHeader == parts[1]
        encodedPayload == parts[2]
        encodedSignature == parts[3]
        hdr == parseBase64UrlJson(encodedHeader)
        alg == Get(hdr, "alg")
        signingInput == <<encodedHeader, encodedPayload>>
        payload == parseBase64UrlJson(encodedPayload)
    IN  IF Falsy(hdr)
        THEN Invalid("invalid_header")
        ELSE IF ~(alg.t = "string" /\ alg.s = "HS256")
        THEN Invalid("unsupported_algorithm")
        ELSE IF Falsy(payload)
        THEN Invalid("invalid_payload")
        ELSE IF ~verifySignature(signingInput, encodedSignature, signingKey)
        THEN Invalid("invalid_signature")
        ELSE verifyClaims(payload, options)

\* The result of lines 170-227.
verifyParts(parts, signingKey, options) ==
    verifyPartsRun(parts, signingKey, options).result

verifyInternalJwt(token, signingKey, options) ==
    LET parts == Split(token)
    IN  IF Len(parts) # 3
        THEN Invalid("invalid_format")
        ELSE IF parts[1] = EmptySeg \/ parts[2] = EmptySeg \/ parts[3] = EmptySeg
        THEN Invalid("missing_parts")
        ELSE verifyParts(parts, signingKey, options)

\* The helper calls verifyInternalJwt makes on a token.
verifyInternalJwtCalls(token, signingKey, options) ==
    LET parts == Split(token)
    IN  IF Len(parts) # 3
        THEN <<>>
        ELSE IF parts[1] = EmptySeg \/ parts[2] = EmptySeg \/ parts[3] = EmptySeg
        THEN <<>>
        ELSE verifyPartsRun(parts, signingKey, options).calls

----------------------------------------------------------------------------
(* middleware/internal-service-auth.middleware *)

\* utils/request generateRequestId(): some id no request or token carries.
GeneratedIds == {"gen-1", "gen-2"}

\* Mutant: the expected digest is compared with itself.
tokensMatchSelf(provided, expected) ==
    LET key == expected
        expectedDigest == Hmac(key, expected)
    IN  expectedDigest = expectedDigest

tokensMatch(provided, expected) ==
    LET key == expected
        providedDigest == Hmac(key, provided)
        expectedDigest == Hmac(key, expected)
    IN  providedDigest = expectedDigest

\* Mutant: the mode is compared without regard to case.
getAuthModeAnyCase(mode) == IF mode \in {"jwt", "JWT"} THEN "jwt" ELSE "hybrid"

getAuthMode(mode) == IF mode = "jwt" THEN "jwt" ELSE "hybrid"

Call(op, ret) == [op |-> op, ret |-> ret]
LogEntry(level, msg, rid, reason, authMode) ==
    [level |-> level, msg |-> msg, requestId |-> rid, reason |-> reason,
     authMode |-> authMode]

NoResponse == [status |-> 0, code |-> "", message |-> "", requestId |-> ""]
createErrorResponse(status, code, message, rid) ==
    [status |-> status, code |-> code, message |-> message, requestId |-> rid]

\* return c.json(createErrorResponse(code, message, requestId), status)
Deny(st, status, code, message) ==
    [st EXCEPT !.res = createErrorResponse(status, code, message, st.requestId),
               !.calls = Append(st.calls, Call("c.json", code))]

\* return next()
Allow(st) ==
    [st EXCEPT !.next = TRUE, !.calls = Append(st.calls, Call("next", ""))]

Warn(st, msg, reason, authMode) ==
    [st EXCEPT !.logs = Append(st.logs,
        LogEntry("warn", msg, st.requestId, reason, authMode))]

Error(st, msg) ==
    [st EXCEPT !.logs = Append(st.logs,
        LogEntry("error", msg, st.requestId, "", ""))]

\* An exception leaves the middleware: nothing is logged, next() is not called
\* and the request ends without the middleware's own response.
Abort(st, thrown) ==
    [st EXCEPT !.res = createErrorResponse(500, thrown.error, "", "")]

\* Mutant: jwt mode is not checked for its signing key.
MisconfiguredJwtUnchecked(authMode, jwtSigningKey) == FALSE

\* Lines 82 and 101: the configuration is unusable for the mode.
MisconfiguredJwt(authMode, jwtSigningKey) ==
    authMode = "jwt" /\ FalsyStr(jwtSigningKey)

MisconfiguredHybrid(authMode, jwtSigningKey, legacyToken) ==
    authMode = "hybrid" /\ FalsyStr(jwtSigningKey) /\ FalsyToken(legacyToken)

\* Mutant: the request goes on when no legacy check applies.
LegacyStageFailOpen(st, provided, legacyToken, authMode) ==
    LET matched == tokensMatch(provided, legacyToken)
        tried == [st EXCEPT !.calls = Append(st.calls,
                     Call("tokensMatch", IF matched THEN "true" ELSE "false"))]
    IN  IF authMode = "hybrid" /\ ~FalsyToken(legacyToken)
        THEN IF matched
             THEN Allow(tried)
             ELSE Deny(Warn(tried, "Rejected: invalid token", "", authMode),
                       403, "FORBIDDEN", "Invalid internal auth token")
        ELSE Allow(st)

\* Mutant: the legacy token is compared in every mode.
LegacyStageAnyMode(st, provided, legacyToken, authMode) ==
    LET matched == tokensMatch(provided, legacyToken)
        tried == [st EXCEPT !.calls = Append(st.calls,
                     Call("tokensMatch", IF matched THEN "true" ELSE "false"))]
    IN  IF ~FalsyToken(legacyToken)
        THEN IF matched
             THEN Allow(tried)
             ELSE Deny(Warn(tried, "Rejected: invalid token", "", authMode),
                       403, "FORBIDDEN", "Invalid internal auth token")
        ELSE Deny(Warn(st, "Rejected: invalid token", "", authMode),
                  403, "FORBIDDEN", "Invalid internal auth token")

\* Lines 170-188: the legacy token check and the final rejection.
LegacyStage(st, provided, legacyToken, authMode) ==
    LET matched == tokensMatch(provided, legacyToken)
        tried == [st EXCEPT !.calls = Append(st.calls,
                     Call("tokensMatch", IF matched THEN "true" ELSE "false"))]
    IN  IF authMode = "hybrid" /\ ~FalsyToken(legacyToken)
        THEN IF matched
             THEN Allow(tried)
             ELSE Deny(Warn(tried, "Rejected: invalid token", "", authMode),
                       403, "FORBIDDEN", "Invalid internal auth token")
        ELSE Deny(Warn(st, "Rejected: invalid token", "", authMode),
                  403, "FORBIDDEN", "Invalid internal auth token")

\* Mutant: the assertion's requestId is not written to the context.
JwtAcceptedNoSet(st, jwtResult) == Allow(st)

\* Lines 140-146: a valid assertion; its requestId goes into the context.
JwtAccepted(st, jwtResult) ==
    LET rid == Get(jwtResult.payload, "requestId")
    IN  Allow(IF ~Falsy(rid) THEN [st EXCEPT !.ctxRequestId = rid.s] ELSE st)

\* Mutant: the token's requestId is written to the context before the token
\* is verified.
JwtStageEarlySet(st, provided, jwtSigningKey, legacyToken, authMode, t) ==
    LET shaped == looksLikeJwt(provided)
        claimed == Get(parseBase64UrlJson(provided[2]), "requestId")
        early == IF claimed.t = "string" /\ claimed.s # ""
                 THEN [st EXCEPT !.ctxRequestId = claimed.s]
                 ELSE st
        looked == [early EXCEPT !.calls = Append(st.calls,
                      Call("looksLikeJwt", IF shaped THEN "true" ELSE "false"))]
        jwtResult == verifyInternalJwt(provided, jwtSigningKey,
                                       Options(SERVICE_KEY, t))
        verified == [looked EXCEPT
                        !.result = jwtResult,
                        !.calls = Append(looked.calls,
                            Call("verifyInternalJwt",
                                 IF jwtResult.valid THEN "valid" ELSE "invalid"))]
        failed == Warn(verified, "JWT verification failed", jwtResult.error, "")
    IN  IF FalsyStr(jwtSigningKey)
        THEN LegacyStage(st, provided, legacyToken, authMode)
        ELSE IF ~shaped
        THEN LegacyStage(st, provided, legacyToken, authMode)
        ELSE IF jwtResult = ThrewTypeError
        THEN Abort(looked, jwtResult)
        ELSE IF jwtResult.valid
        THEN JwtAccepted(verified, jwtResult)
        ELSE IF authMode = "jwt"
        THEN Deny(failed, 403, "FORBIDDEN", "Invalid internal auth token")
        ELSE LegacyStage(failed, provided, legacyToken, authMode)

\* Mutant: a failed verification is rejected in every mode.
JwtStageNoFallThrough(st, provided, jwtSigningKey, legacyToken, authMode, t) ==
    LET shaped == looksLikeJwt(provided)
        looked == [st EXCEPT !.calls = Append(st.calls,
                      Call("looksLikeJwt", IF shaped THEN "true" ELSE "false"))]
        jwtResult == verifyInternalJwt(provided, jwtSigningKey,
                                       Options(SERVICE_KEY, t))
        verified == [looked EXCEPT
                        !.result = jwtResult,
                        !.calls = Append(looked.calls,
                            Call("verifyInternalJwt",
                                 IF jwtResult.valid THEN "valid" ELSE "invalid"))]
        failed == Warn(verified, "JWT verification failed", jwtResult.error, "")
    IN  IF FalsyStr(jwtSigningKey)
        THEN LegacyStage(st, provided, legacyToken, authMode)
        ELSE IF ~shaped
        THEN LegacyStage(looked, provided, legacyToken, authMode)
        ELSE IF jwtResult = ThrewTypeError
        THEN Abort(looked, jwtResult)
        ELSE IF jwtResult.valid
        THEN JwtAccepted(verified, jwtResult)
        ELSE Deny(failed, 403, "FORBIDDEN", "Invalid internal auth token")

\* Lines 134-168: JWT verification, when a signing key is configured and the
\* token looks like a JWT.
JwtStage(st, provided, jwtSigningKey, legacyToken, authMode, t) ==
    LET shaped == looksLikeJwt(provided)
        looked == [st EXCEPT !.calls = Append(st.calls,
                      Call("looksLikeJwt", IF shaped THEN "true" ELSE "false"))]
        jwtResult == verifyInternalJwt(provided, jwtSigningKey,
                                       Options(SERVICE_KEY, t))
        verified == [looked EXCEPT
                        !.result = jwtResult,
                        !.calls = Append(looked.calls,
                            Call("verifyInternalJwt",
                                 IF jwtResult.valid THEN "valid" ELSE "invalid"))]
        failed == Warn(verified, "JWT verification failed", jwtResult.error, "")
    IN  IF FalsyStr(jwtSigningKey)
        THEN LegacyStage(st, provided, legacyToken, authMode)
        ELSE IF ~shaped
        THEN LegacyStage(looked, provided, legacyToken, authMode)
        ELSE IF jwtResult = ThrewTypeError
        THEN Abort(looked, jwtResult)
        ELSE IF jwtResult.valid
        THEN JwtAccepted(verified, jwtResult)
        ELSE IF authMode = "jwt"
        THEN Deny(failed, 403, "FORBIDDEN", "Invalid internal auth token")
        ELSE LegacyStage(failed, provided, legacyToken, authMode)

\* Mutant: a missing token is not rejected on the spot.
HeaderStageNoCheck(st, hdr, jwtSigningKey, legacyToken, authMode, t) ==
    LET provided == hdr
        read == [st EXCEPT !.calls = Append(st.calls, Call("c.req.header", ""))]
    IN  JwtStage(read, provided, jwtSigningKey, legacyToken, authMode, t)

\* Lines 117-132: the header is read; a missing token is rejected.
HeaderStage(st, hdr, jwtSigningKey, legacyToken, authMode, t) ==
    LET provided == hdr
        read == [st EXCEPT !.calls = Append(st.calls, Call("c.req.header", ""))]
    IN  IF FalsyToken(provided)
        THEN Deny(Warn(read, "Rejected: missing token header", "", ""),
                  401, "UNAUTHORIZED", "Missing internal auth token")
        ELSE JwtStage(read, provided, jwtSigningKey, legacyToken, authMode, t)

\* Mutant: the message says which secret is missing.
MisconfiguredMessageBySecret(authMode) ==
    IF authMode = "jwt"
    THEN "INTERNAL_JWT_SIGNING_KEY is not set"
    ELSE "No signing key or token set"

\* Lines 94 and 110: the message of the 500 response, in either mode.
MisconfiguredMessage(authMode) == "Internal auth misconfigured"

\* The whole middleware, lines 74-189, as a function of what it reads.
Gate(e, hdr, ctxRequestId, t, fresh) ==
    LET generated == FalsyStr(ctxRequestId)
        st0 == [requestId |-> IF generated THEN fresh ELSE ctxRequestId,
                ctxRequestId |-> ctxRequestId,
                result |-> NoResult,
                res |-> NoResponse,
                next |-> FALSE,
                calls |-> IF generated
                          THEN <<Call("generateRequestId", fresh)>>
                          ELSE <<>>,
                logs |-> <<>>]
        jwtSigningKey == e.INTERNAL_JWT_SIGNING_KEY
        legacyToken == e.INTERNAL_SERVICE_TOKEN
        authMode == getAuthMode(e.INTERNAL_AUTH_MODE)
    IN  IF MisconfiguredJwt(authMode, jwtSigningKey)
        THEN Deny(Error(st0, "Misconfigured: INTERNAL_AUTH_MODE=jwt but INTERNAL_JWT_SIGNING_KEY is not set"),
                  500, "INTERNAL_ERROR", MisconfiguredMessage(authMode))
        ELSE IF MisconfiguredHybrid(authMode, jwtSigningKey, legacyToken)
        THEN Deny(Error(st0, "Misconfigured: No signing key or token set"),
                  500, "INTERNAL_ERROR", MisconfiguredMessage(authMode))
        ELSE HeaderStage(st0, hdr, jwtSigningKey, legacyToken, authMode, t)

----------------------------------------------------------------------------
(* Tokens: createTestJwt of the unit tests, and the inputs of the model *)

SignatureSeg(signingKey, encodedHeader, encodedPayload) ==
    base64UrlEncode(Hmac(signingKey, <<encodedHeader, encodedPayload>>))

createTestJwt(encodedHeader, encodedPayload, signingKey) ==
    <<encodedHeader, encodedPayload,
      SignatureSeg(signingKey, encodedHeader, encodedPayload)>>

HeaderSeg(alg) == JsonSeg("", JsonObject([NoFields EXCEPT !.alg = alg]))

PayloadSeg(internal, aud, iat, exp, rid) ==
    JsonSeg("", JsonObject([alg |-> JsUndefined, internal |-> internal,
                            aud |-> aud, iat |-> iat, exp |-> exp,
                            requestId |-> rid]))

HS256Header == HeaderSeg(JsStr("HS256"))
RS256Header == HeaderSeg(JsStr("RS256"))
NoAlgHeader == HeaderSeg(JsUndefined)
GarbageSeg == TextSeg("!!!invalid!!!", ShortLen)

\* createValidPayload of the unit tests at time T0.
ValidPayload == PayloadSeg(JsBool(TRUE), JsStr(SERVICE_KEY), JsNum(T0),
                           JsNum(T0 + 60), JsStr("rid-jwt"))
\* Valid at T0 only: at T0 + 1 it is too old and expired.
EdgePayload == PayloadSeg(JsBool(TRUE), JsStr(SERVICE_KEY),
                          JsNum(T0 - DefaultMaxAgeSeconds),
                          JsNum(T0 - DefaultClockSkewSeconds + 1),
                          JsStr("rid-edge"))
OtherAudPayload == PayloadSeg(JsBool(TRUE), JsStr("doc-service"), JsNum(T0),
                              JsNum(T0 + 60), JsStr("rid-doc"))
NoRidPayload == PayloadSeg(JsBool(TRUE), JsStr(SERVICE_KEY), JsNum(T0),
                           JsNum(T0 + 60), JsStr(""))

SigningKeys == {"k1", "k2"}
ValidJwt == createTestJwt(HS256Header, ValidPayload, "k1")
EdgeJwt == createTestJwt(HS256Header, EdgePayload, "k1")
OtherKeyJwt == createTestJwt(HS256Header, ValidPayload, "k2")
OtherAudJwt == createTestJwt(HS256Header, OtherAudPayload, "k1")
NoRidJwt == createTestJwt(HS256Header, NoRidPayload, "k1")
RS256Jwt == <<RS256Header, ValidPayload, TextSeg("fakesignature", ShortLen)>>
NoAlgJwt == <<NoAlgHeader, ValidPayload, TextSeg("fakesignature", ShortLen)>>
\* A static secret that happens to have the shape of a JWT.
ShapedSecret == <<HS256Header, TextSeg("static", ShortLen), TextSeg("secret", ShortLen)>>
Secret1 == <<TextSeg("unit-test-token", ShortLen)>>
WrongToken == <<TextSeg("wrong-token", ShortLen)>>
TwoParts == <<TextSeg("part1", ShortLen), TextSeg("part2", ShortLen)>>

\* The X-Internal-Service-Token values a request of the model carries.
GateTokens ==
    {NoToken, EmptyToken, Secret1, WrongToken, TwoParts, ValidJwt, EdgeJwt,
     OtherKeyJwt, OtherAudJwt, NoRidJwt, RS256Jwt, NoAlgJwt, ShapedSecret}

\* The requests in flight: none arrived yet.
MaxRequests == 2
Requests == 1..MaxRequests
NoRequest ==
    [pc |-> "none", header |-> NoToken, ctx |-> Undefined, at |-> 0,
     fresh |-> "",
     out |-> [status |-> 0, code |-> "", requestId |-> "", next |-> FALSE,
              ctx |-> Undefined]]
NoRequests == [r \in Requests |-> NoRequest]

\* process.env at start.
Envs ==
    [INTERNAL_AUTH_MODE : {Undefined, "", "jwt", "JWT", "hybrid", "strict"},
     INTERNAL_JWT_SIGNING_KEY : {Undefined, "", "k1"},
     INTERNAL_SERVICE_TOKEN : {NoToken, EmptyToken, Secret1, ShapedSecret, ValidJwt,
                               OtherKeyJwt}]

\* c.get("requestId") when the middleware starts.
ContextIds == {Undefined, "ctx-1"}

----------------------------------------------------------------------------
(* The gate: requests through internalServiceAuthMiddleware *)

Init ==
    /\ env \in Envs
    /\ startEnv = env
    /\ now = T0
    /\ requests = NoRequests
    /\ timer = FALSE
    /\ running = FALSE
    /\ runs = <<>>
    /\ header = NoToken
    /\ ctx = Undefined
    /\ pc = "idle"
    /\ requestId = ""
    /\ result = NoResult
    /\ res = NoResponse
    /\ handlerRan = FALSE
    /\ calls = <<>>
    /\ logs = <<>>

\* The clock advances between requests.
Tick ==
    /\ pc = "idle"
    /\ now < T0 + MaxTicks
    /\ now' = now + 1
    /\ UNCHANGED <<env, startEnv, header, ctx, pc, requestId, result, res,
                   handlerRan, calls, logs>>
    /\ UNCHANGED <<requests, timer, running, runs>>

\* A request reaches the route that the middleware guards.
Request ==
    /\ pc = "idle"
    /\ \E tok \in GateTokens, rid \in ContextIds :
          /\ header' = tok
          /\ ctx' = rid
    /\ pc' = "pending"
    /\ UNCHANGED <<env, startEnv, now, requestId, result, res, handlerRan, calls, logs>>
    /\ UNCHANGED <<requests, timer, running, runs>>

internalServiceAuthMiddleware ==
    /\ pc = "pending"
    /\ \E fresh \in GeneratedIds :
          LET out == Gate(env, header, ctx, now, fresh)
          IN  /\ requestId' = out.requestId
              /\ ctx' = out.ctxRequestId
              /\ result' = out.result
              /\ res' = out.res
              /\ handlerRan' = out.next
              /\ calls' = out.calls
              /\ logs' = out.logs
    /\ pc' = "done"
    /\ UNCHANGED <<env, startEnv, now, header>>
    /\ UNCHANGED <<requests, timer, running, runs>>

\* The request is over; its context and locals are gone.
Complete ==
    /\ pc = "done"
    /\ pc' = "idle"
    /\ header' = NoToken
    /\ ctx' = Undefined
    /\ requestId' = ""
    /\ result' = NoResult
    /\ res' = NoResponse
    /\ handlerRan' = FALSE
    /\ calls' = <<>>
    /\ logs' = <<>>
    /\ UNCHANGED <<env, startEnv, now>>
    /\ UNCHANGED <<requests, timer, running, runs>>

Next == Tick \/ Request \/ internalServiceAuthMiddleware \/ Complete

Spec == Init /\ [][Next]_vars

----------------------------------------------------------------------------
(* The gate in a process whose environment is written to after start *)

\* The configurations the process is started with here.
StartEnvs ==
    [INTERNAL_AUTH_MODE : {Undefined, "jwt"},
     INTERNAL_JWT_SIGNING_KEY : {"k1"},
     INTERNAL_SERVICE_TOKEN : {Secret1}]

InitEnv ==
    /\ Init
    /\ env \in StartEnvs

\* process.env.NAME = value, between two requests.
SetEnv ==
    /\ pc = "idle"
    /\ \E e \in Envs :
          /\ \/ e = [env EXCEPT !.INTERNAL_AUTH_MODE = e.INTERNAL_AUTH_MODE]
             \/ e = [env EXCEPT !.INTERNAL_JWT_SIGNING_KEY = e.INTERNAL_JWT_SIGNING_KEY]
             \/ e = [env EXCEPT !.INTERNAL_SERVICE_TOKEN = e.INTERNAL_SERVICE_TOKEN]
          /\ e # env
          /\ env' = e
    /\ UNCHANGED <<startEnv, now, header, ctx, pc, requestId, result, res,
                   handlerRan, calls, logs>>
    /\ UNCHANGED <<requests, timer, running, runs>>

NextEnv == Next \/ SetEnv

SpecEnv == InitEnv /\ [][NextEnv]_vars

----------------------------------------------------------------------------
(* The gate with several requests in flight, each with its own Context *)

ConcTokens == {Secret1, ValidJwt, OtherAudJwt}

InitConc ==
    /\ Init
    /\ env \in StartEnvs

\* Mutant: one context store serves all requests.
ContextOfFirst(store, r) == store[1].ctx

\* c.get("requestId") on the Context of request r.
ContextOf(store, r) == store[r].ctx

\* What the middleware did for a request: the response or next(), and the
\* requestId its context holds afterwards.
Outcome(out) ==
    [status |-> out.res.status, code |-> out.res.code,
     requestId |-> out.res.requestId, next |-> out.next,
     ctx |-> out.ctxRequestId]

\* Request r reaches the guarded route.
Arrive(r) ==
    /\ requests[r].pc = "none"
    /\ \E tok \in ConcTokens, rid \in ContextIds :
          requests' = [requests EXCEPT ![r] =
              [NoRequest EXCEPT !.pc = "pending", !.header = tok, !.ctx = rid]]
    /\ UNCHANGED <<env, startEnv, now, header, ctx, pc, requestId, result, res,
                   handlerRan, calls, logs, timer, running, runs>>

\* The middleware runs for request r; it has no await before next().
Evaluate(r) ==
    /\ requests[r].pc = "pending"
    /\ \E id \in GeneratedIds :
          LET seen == ContextOf(requests, r)
              out == Gate(env, requests[r].header, seen, now, id)
          IN  requests' = [requests EXCEPT ![r] =
                  [@ EXCEPT !.pc = "done", !.at = now,
                            !.fresh = IF FalsyStr(seen) THEN id ELSE "",
                            !.out = Outcome(out)]]
    /\ UNCHANGED <<env, startEnv, now, header, ctx, pc, requestId, result, res,
                   handlerRan, calls, logs, timer, running, runs>>

\* The response of request r is sent; its Context is dropped.
Leave(r) ==
    /\ requests[r].pc = "done"
    /\ requests' = [requests EXCEPT ![r] = NoRequest]
    /\ UNCHANGED <<env, startEnv, now, header, ctx, pc, requestId, result, res,
                   handlerRan, calls, logs, timer, running, runs>>

NextConc ==
    \/ \E r \in Requests : Arrive(r)
    \/ \E r \in Requests : Evaluate(r)
    \/ \E r \in Requests : Leave(r)

SpecConc == InitConc /\ [][NextConc]_vars

----------------------------------------------------------------------------
(* The verifier alone: verifyInternalJwt on every token of VerifyTokens *)

IssuedAts ==
    {JsStr("soon"), JsNum(T0 - DefaultMaxAgeSeconds), JsNum(T0),
     JsNum(T0 + MaxTicks), JsNum(T0 + DefaultClockSkewSeconds + 1)}
ExpiresAts ==
    {JsUndefined, JsNum(T0 - DefaultClockSkewSeconds + 1), JsNum(T0 + 60),
     JsNum(T0 + MaxTicks + 60)}

PayloadSegs ==
    {EmptySeg, GarbageSeg, JsonSeg("", JsonValue(JsNum(0))),
     JsonSeg("", JsonValue(JsArray))}
    \cup {PayloadSeg(internal, aud, iat, exp, rid) :
            internal \in {JsBool(TRUE), JsStr("true")},
            aud \in {JsStr(SERVICE_KEY), JsStr("doc-service")},
            iat \in IssuedAts,
            exp \in ExpiresAts,
            rid \in {JsUndefined, JsNum(7), JsStr(""), JsStr("rid-jwt")}}

HeaderSegs ==
    {EmptySeg, GarbageSeg, JsonSeg("", JsonValue(JsNull)),
     JsonSeg("", JsonValue(JsArray)), JsonSeg("", JsonValue(JsBool(TRUE))),
     NoAlgHeader, RS256Header, HeaderSeg(JsStr("hs256")), HS256Header}

\* What stands in the third segment of a token with this header and payload.
SignatureSegs(encodedHeader, encodedPayload) ==
    {EmptySeg, TextSeg("fakesignature", ShortLen),
     TextSeg("fakesignature", DigestB64Len),
     SignatureSeg("k1", encodedHeader, encodedPayload),
     SignatureSeg("k2", encodedHeader, encodedPayload),
     SignatureSeg("k1", encodedHeader, ValidPayload)}

VerifyTokens ==
    {<<TextSeg("not-a-jwt", ShortLen)>>, TwoParts,
     <<HS256Header, ValidPayload,
       SignatureSeg("k1", HS256Header, ValidPayload),
       TextSeg("extra", ShortLen)>>}
    \cup UNION {{<<h, p, sig>> : sig \in SignatureSegs(h, p)} :
                  h \in HeaderSegs, p \in PayloadSegs}

TEST_SIGNING_KEY == "k1"

InitVerify ==
    /\ env = [INTERNAL_AUTH_MODE |-> Undefined,
              INTERNAL_JWT_SIGNING_KEY |-> TEST_SIGNING_KEY,
              INTERNAL_SERVICE_TOKEN |-> OtherKeyJwt]
    /\ startEnv = env
    /\ now = T0
    /\ requests = NoRequests
    /\ timer = FALSE
    /\ running = FALSE
    /\ runs = <<>>
    /\ header \in VerifyTokens
    /\ ctx = Undefined
    /\ pc = "idle"
    /\ requestId = ""
    /\ result = NoResult
    /\ res = NoResponse
    /\ handlerRan = FALSE
    /\ calls = <<>>
    /\ logs = <<>>

\* verifyInternalJwt(token, signingKey, { expectedAudience }) at the current time.
VerifyCall ==
    /\ pc = "idle"
    /\ result' = verifyInternalJwt(header, env.INTERNAL_JWT_SIGNING_KEY,
                                   Options(SERVICE_KEY, now))
    /\ calls' = verifyInternalJwtCalls(header, env.INTERNAL_JWT_SIGNING_KEY,
                                       Options(SERVICE_KEY, now))
    /\ pc' = "verified"
    /\ UNCHANGED <<env, startEnv, now, header, ctx, requestId, res, handlerRan, logs>>
    /\ UNCHANGED <<requests, timer, running, runs>>

\* The caller drops the result.
VerifyReturn ==
    /\ pc = "verified"
    /\ pc' = "idle"
    /\ result' = NoResult
    /\ calls' = <<>>
    /\ UNCHANGED <<env, startEnv, now, header, ctx, requestId, res, handlerRan, logs>>
    /\ UNCHANGED <<requests, timer, running, runs>>

\* The same token arrives at the guarded route, in a request that has an id.
Present ==
    /\ pc = "idle"
    /\ header # NoToken
    /\ ctx' = "ctx-1"
    /\ pc' = "pending"
    /\ UNCHANGED <<env, startEnv, now, header, requestId, result, res,
                   handlerRan, calls, logs>>
    /\ UNCHANGED <<requests, timer, running, runs>>

\* The request is over; the token stays with its bearer.
Finish ==
    /\ pc = "done"
    /\ pc' = "idle"
    /\ ctx' = Undefined
    /\ requestId' = ""
    /\ result' = NoResult
    /\ res' = NoResponse
    /\ handlerRan' = FALSE
    /\ calls' = <<>>
    /\ logs' = <<>>
    /\ UNCHANGED <<env, startEnv, now, header>>
    /\ UNCHANGED <<requests, timer, running, runs>>

NextVerify ==
    Tick \/ VerifyCall \/ VerifyReturn \/ Present
        \/ internalServiceAuthMiddleware \/ Finish

SpecVerify == InitVerify /\ [][NextVerify]_vars

----------------------------------------------------------------------------
(* retention/gateway-request-logs-retention: one scheduler *)

MaxRuns == 3

\* One invocation of runNow: what triggered it, where it stands, its hasLock,
\* the awaited calls that have settled, what it logged, and its promise.
Invocation(trigger, at) ==
    [trigger |-> trigger, pc |-> at, hasLock |-> FALSE, calls |-> <<>>,
     logged |-> <<>>, settled |-> IF at = "skipped" THEN "resolved" ELSE "pending"]

\* Mutant: runNow starts although a run is in progress.
SkipsNever(flag) == FALSE

\* Line 29: if (running) return
Skips(flag) == flag

\* Mutant: the prune goes on without the lock.
PrunesAlways(hasLock) == TRUE

\* Line 36: if (!hasLock) return, negated
Prunes(hasLock) == hasLock

\* Mutant: the lock is released only after a delete that succeeded.
UnlocksAfterSuccess(hasLock, deleteFailed) == hasLock /\ ~deleteFailed

\* Line 55: if (hasLock) in the finally block
Unlocks(hasLock, deleteFailed) == hasLock

\* Lines 54-67 without an unlock: the run ends and the flag is cleared.
Ended(run) == [run EXCEPT !.pc = "ended", !.settled = "resolved"]

\* startGatewayRequestLogsRetention() has returned: the timer is set and the
\* first runNow waits for tryAcquireLock.
InitRetention ==
    /\ env = [INTERNAL_AUTH_MODE |-> Undefined,
              INTERNAL_JWT_SIGNING_KEY |-> Undefined,
              INTERNAL_SERVICE_TOKEN |-> Secret1]
    /\ startEnv = env
    /\ now = T0
    /\ requests = NoRequests
    /\ header = NoToken
    /\ ctx = Undefined
    /\ pc = "idle"
    /\ requestId = ""
    /\ result = NoResult
    /\ res = NoResponse
    /\ handlerRan = FALSE
    /\ calls = <<>>
    /\ logs = <<>>
    /\ timer = TRUE
    /\ running = TRUE
    /\ runs = <<Invocation("start", "acquiring")>>

\* runNow up to its first await, lines 28-35.
runNow(trigger) ==
    /\ Len(runs) < MaxRuns
    /\ IF Skips(running)
       THEN /\ runs' = Append(runs, Invocation(trigger, "skipped"))
            /\ UNCHANGED running
       ELSE /\ runs' = Append(runs, Invocation(trigger, "acquiring"))
            /\ running' = TRUE

\* The interval timer fires, lines 70-72.
TimerFires ==
    /\ timer
    /\ runNow("timer")
    /\ UNCHANGED <<env, startEnv, now, header, ctx, pc, requestId, result, res,
                   handlerRan, calls, logs, requests, timer>>

\* scheduler.runNow() is called from outside.
ManualRun ==
    /\ runNow("manual")
    /\ UNCHANGED <<env, startEnv, now, header, ctx, pc, requestId, result, res,
                   handlerRan, calls, logs, requests, timer>>

\* scheduler.stop(), lines 78-83.
stop ==
    /\ timer
    /\ timer' = FALSE
    /\ UNCHANGED <<env, startEnv, now, header, ctx, pc, requestId, result, res,
                   handlerRan, calls, logs, requests, running, runs>>

\* await tryAcquireLock() settles: locked, not locked, or the query fails.
LockSettles(i) ==
    /\ i \in DOMAIN runs
    /\ runs[i].pc = "acquiring"
    /\ \E outcome \in {"true", "false", "throws"} :
          LET hasLock == outcome = "true"
              asked == [runs[i] EXCEPT
                           !.hasLock = hasLock,
                           !.calls = Append(@, HelperCall("tryAcquireLock", outcome))]
              failed == [asked EXCEPT !.logged = Append(@, "prune failed")]
          IN  IF outcome = "throws"
              THEN /\ runs' = [runs EXCEPT ![i] = Ended(failed)]
                   /\ running' = FALSE
              ELSE IF Prunes(hasLock)
              THEN /\ runs' = [runs EXCEPT ![i] = [asked EXCEPT !.pc = "deleting"]]
                   /\ UNCHANGED running
              ELSE /\ runs' = [runs EXCEPT ![i] = Ended(asked)]
                   /\ running' = FALSE
    /\ UNCHANGED <<env, startEnv, now, header, ctx, pc, requestId, result, res,
                   handlerRan, calls, logs, requests, timer>>

\* await deleteOlderThan(cutoff) settles; then the finally block starts.
DeleteSettles(i) ==
    /\ i \in DOMAIN runs
    /\ runs[i].pc = "deleting"
    /\ \E outcome \in {"ok", "throws"} :
          LET deleted == [runs[i] EXCEPT
                   !.calls = Append(@, HelperCall("deleteOlderThan", outcome)),
                   !.logged = Append(@, IF outcome = "ok" THEN "prune complete"
                                                          ELSE "prune failed")]
          IN  IF Unlocks(runs[i].hasLock, outcome = "throws")
              THEN /\ runs' = [runs EXCEPT ![i] = [deleted EXCEPT !.pc = "releasing"]]
                   /\ UNCHANGED running
              ELSE /\ runs' = [runs EXCEPT ![i] = Ended(deleted)]
                   /\ running' = FALSE
    /\ UNCHANGED <<env, startEnv, now, header, ctx, pc, requestId, result, res,
                   handlerRan, calls, logs, requests, timer>>

\* await releaseLock() settles; a failure is logged, lines 56-66.
UnlockSettles(i) ==
    /\ i \in DOMAIN runs
    /\ runs[i].pc = "releasing"
    /\ \E outcome \in {"ok", "throws"} :
          LET released == [runs[i] EXCEPT
                   !.calls = Append(@, HelperCall("releaseLock", outcome)),
                   !.logged = IF outcome = "ok" THEN @
                              ELSE Append(@, "advisory unlock failed")]
          IN  runs' = [runs EXCEPT ![i] = Ended(released)]
    /\ running' = FALSE
    /\ UNCHANGED <<env, startEnv, now, header, ctx, pc, requestId, result, res,
                   handlerRan, calls, logs, requests, timer>>

NextRetention ==
    \/ TimerFires
    \/ ManualRun
    \/ stop
    \/ \E i \in 1..MaxRuns : LockSettles(i)
    \/ \E i \in 1..MaxRuns : DeleteSettles(i)
    \/ \E i \in 1..MaxRuns : UnlockSettles(i)

SpecRetention == InitRetention /\ [][NextRetention]_vars

----------------------------------------------------------------------------
(* Vocabulary of the properties *)

StrictMode == env.INTERNAL_AUTH_MODE = "jwt"
HybridMode == ~StrictMode
KeyConfigured == env.INTERNAL_JWT_SIGNING_KEY \notin {Undefined, ""}
LegacyConfigured == env.INTERNAL_SERVICE_TOKEN \notin {NoToken, EmptyToken}
ConfigUnusable ==
    \/ StrictMode /\ ~KeyConfigured
    \/ HybridMode /\ ~KeyConfigured /\ ~LegacyConfigured
CredentialPresent == header \notin {NoToken, EmptyToken}
Done == pc = "done"

Called(op) == \E i \in DOMAIN calls : calls[i].op = op
Returned(op, ret) == \E i \in DOMAIN calls : calls[i] = Call(op, ret)
CalledBefore(op1, op2) ==
    \E i, j \in DOMAIN calls : i < j /\ calls[i].op = op1 /\ calls[j].op = op2

\* What the verifier makes of the presented credential now.
AssertionShaped == looksLikeJwt(header)
AssertionValid ==
    /\ KeyConfigured
    /\ verifyInternalJwt(header, env.INTERNAL_JWT_SIGNING_KEY,
                         Options(SERVICE_KEY, now)).valid
EqualsLegacySecret == LegacyConfigured /\ header = env.INTERNAL_SERVICE_TOKEN
Forbidden == res.status = 403 /\ res.code = "FORBIDDEN" /\ ~handlerRan
NoVerifierRan ==
    ~Called("looksLikeJwt") /\ ~Called("verifyInternalJwt") /\ ~Called("tokensMatch")

----------------------------------------------------------------------------
(* Properties of the gate, checked under Spec *)

\* C1: the protected handler runs only if exactly one verifier returned a
\* validated result for the presented credential (verifyInternalJwt valid, or
\* tokensMatch true, never both, never neither), and a 401/403/500 outcome
\* never runs the handler.
C1_ExactlyOneVerifier ==
    Done =>
        /\ handlerRan =>
              /\ Returned("verifyInternalJwt", "valid") # Returned("tokensMatch", "true")
              /\ Returned("verifyInternalJwt", "valid") => AssertionValid
              /\ Returned("tokensMatch", "true") => EqualsLegacySecret
        /\ handlerRan <=> res.status = 0
        /\ res.status \in {0, 401, 403, 500}

\* The credential is a valid assertion and equals the legacy secret, and the
\* handler ran on the assertion alone.
C1_Witness ==
    /\ Done /\ handlerRan
    /\ Returned("verifyInternalJwt", "valid")
    /\ header = env.INTERNAL_SERVICE_TOKEN

\* C2: with a configuration unusable for the mode, every request gets the
\* 500 INTERNAL_ERROR outcome, whatever the credential, before the header is
\* read and before any verifier runs.
C2_MisconfiguredFirst ==
    (Done /\ ConfigUnusable) =>
        /\ res.status = 500 /\ res.code = "INTERNAL_ERROR"
        /\ ~handlerRan
        /\ ~Called("c.req.header")
        /\ NoVerifierRan

\* jwt mode without a signing key, and the credential equals the legacy secret.
C2_Witness ==
    /\ Done /\ StrictMode /\ ~KeyConfigured
    /\ header = Secret1 /\ env.INTERNAL_SERVICE_TOKEN = Secret1
    /\ res.status = 500

\* C3: in jwt mode with a signing key, a request is allowed iff the
\* credential is assertion-shaped and verifyInternalJwt succeeds; a failed
\* verification is answered 403 at once and the legacy secret is never
\* compared.
C3_StrictMode ==
    (Done /\ StrictMode /\ KeyConfigured) =>
        /\ handlerRan <=> (CredentialPresent /\ AssertionShaped /\ AssertionValid)
        /\ Returned("verifyInternalJwt", "invalid") =>
              Forbidden /\ calls[Len(calls) - 1].op = "verifyInternalJwt"
        /\ (CredentialPresent /\ ~handlerRan) => Forbidden
        /\ ~Called("tokensMatch")

\* A JWT-shaped credential equal to the configured legacy secret is refused.
C3_Witness ==
    /\ Done /\ StrictMode /\ KeyConfigured
    /\ header = ShapedSecret /\ env.INTERNAL_SERVICE_TOKEN = ShapedSecret
    /\ Forbidden

\* C4: in hybrid mode an assertion-shaped credential that fails verification
\* falls through to the legacy check; it is allowed iff a legacy secret is
\* configured and the credential equals it, and is forbidden otherwise.
C4_HybridFallThrough ==
    (Done /\ HybridMode /\ KeyConfigured /\ CredentialPresent
          /\ AssertionShaped /\ ~AssertionValid) =>
        /\ Returned("verifyInternalJwt", "invalid")
        /\ LegacyConfigured => CalledBefore("verifyInternalJwt", "tokensMatch")
        /\ handlerRan <=> EqualsLegacySecret
        /\ ~handlerRan => Forbidden

\* The failed assertion is allowed because it equals the legacy secret.
C4_Witness ==
    /\ Done /\ HybridMode /\ KeyConfigured
    /\ header = ShapedSecret
    /\ Returned("verifyInternalJwt", "invalid")
    /\ Returned("tokensMatch", "true")
    /\ handlerRan

\* C5 as stated: in hybrid mode a present credential that is neither a valid
\* assertion nor the configured legacy secret is forbidden after both the
\* assertion verification and the legacy comparison were attempted.
C5_BothChecksAttempted ==
    (Done /\ HybridMode /\ KeyConfigured /\ LegacyConfigured
          /\ CredentialPresent /\ ~AssertionValid /\ ~EqualsLegacySecret) =>
        /\ Forbidden
        /\ Called("verifyInternalJwt")
        /\ Called("tokensMatch")

\* C5 amended: such a credential is forbidden; the assertion verification is
\* attempted exactly when a signing key is configured and the credential is
\* assertion-shaped, the legacy comparison exactly when a legacy secret is
\* configured, and the comparison comes after the verification.
C5_ForbiddenAfterApplicableChecks ==
    (Done /\ HybridMode /\ ~ConfigUnusable
          /\ CredentialPresent /\ ~AssertionValid /\ ~EqualsLegacySecret) =>
        /\ Forbidden
        /\ Called("verifyInternalJwt") <=> (KeyConfigured /\ AssertionShaped)
        /\ Called("tokensMatch") <=> LegacyConfigured
        /\ (Called("verifyInternalJwt") /\ Called("tokensMatch")) =>
              CalledBefore("verifyInternalJwt", "tokensMatch")

\* A token signed with another key is forbidden after both checks.
C5_Witness ==
    /\ Done /\ HybridMode /\ header = OtherKeyJwt
    /\ Returned("verifyInternalJwt", "invalid")
    /\ Returned("tokensMatch", "false")
    /\ Forbidden

\* C6: with a usable configuration, a request without the header is answered
\* 401 UNAUTHORIZED; no verifier and no handler runs.
C6_MissingToken ==
    (Done /\ ~ConfigUnusable /\ header = NoToken) =>
        /\ res.status = 401 /\ res.code = "UNAUTHORIZED"
        /\ ~handlerRan
        /\ NoVerifierRan

C6_Witness ==
    /\ Done /\ ~ConfigUnusable /\ header = NoToken
    /\ res.status = 401
    /\ Called("c.req.header")

\* C7: with a signing key, an assertion-shaped credential that passes
\* verification for this service's audience is allowed, and the context's
\* requestId is then the requestId claim of the assertion.
C7_ClaimIdPropagated ==
    (Done /\ KeyConfigured /\ CredentialPresent /\ AssertionShaped
          /\ AssertionValid) =>
        /\ handlerRan
        /\ Get(header[2].json, "aud") = JsStr(SERVICE_KEY)
        /\ JsStr(ctx) = Get(header[2].json, "requestId")

\* The context had an id of its own, replaced by the claim's.
C7_Witness ==
    /\ Done /\ handlerRan /\ header = ValidJwt
    /\ requestId = "ctx-1"
    /\ ctx = "rid-jwt"

\* C8: a request allowed through the legacy check has a freshly generated
\* correlation id in its context when the handler runs.
C8_LegacyIdAttached ==
    (Done /\ handlerRan /\ Returned("tokensMatch", "true")) =>
        /\ ctx \in GeneratedIds
        /\ ctx = requestId

----------------------------------------------------------------------------
(* Properties of verifyInternalJwt, checked under SpecVerify *)

Verified == pc = "verified"
TokenHeader == parseBase64UrlJson(header[1])
TokenPayload == parseBase64UrlJson(header[2])
Claim(name) == Get(TokenPayload, name)

CheckOrder ==
    <<"invalid_format", "missing_parts", "invalid_header",
      "unsupported_algorithm", "invalid_signature", "invalid_payload",
      "not_internal_token", "audience_mismatch", "missing_iat", "iat_future",
      "iat_too_old", "missing_exp", "token_expired", "missing_request_id">>

\* The token fails the check with this code, taken on its own.
Violates(code) ==
    IF code = "invalid_format" THEN Len(header) # 3
    ELSE /\ Len(header) = 3
         /\ CASE code = "missing_parts" ->
                    \E i \in 1..3 : header[i] = EmptySeg
              [] code = "invalid_header" -> Falsy(TokenHeader)
              [] code = "unsupported_algorithm" ->
                    Get(TokenHeader, "alg") # JsStr("HS256")
              [] code = "invalid_signature" ->
                    header[3] # SignatureSeg(TEST_SIGNING_KEY, header[1], header[2])
              [] code = "invalid_payload" -> Falsy(TokenPayload)
              [] code = "not_internal_token" -> Claim("internal") # JsBool(TRUE)
              [] code = "audience_mismatch" -> Claim("aud") # JsStr(SERVICE_KEY)
              [] code = "missing_iat" -> Claim("iat").t # "number"
              [] code = "iat_future" ->
                    /\ Claim("iat").t = "number"
                    /\ Claim("iat").n > now + DefaultClockSkewSeconds
              [] code = "iat_too_old" ->
                    /\ Claim("iat").t = "number"
                    /\ Claim("iat").n < now - DefaultMaxAgeSeconds
              [] code = "missing_exp" -> Claim("exp").t # "number"
              [] code = "token_expired" ->
                    /\ Claim("exp").t = "number"
                    /\ now >= Claim("exp").n + DefaultClockSkewSeconds
              [] code = "missing_request_id" ->
                    Claim("requestId").t # "string" \/ Claim("requestId").s = ""

ViolatedChecks == {i \in DOMAIN CheckOrder : Violates(CheckOrder[i])}

\* C9: the result of verifyInternalJwt is the code of the earliest violated
\* check in the order of CheckOrder, and valid when no check is violated.
C9_EarliestViolatedCheck ==
    Verified =>
        IF ViolatedChecks = {}
        THEN result.valid /\ result.error = ""
        ELSE /\ ~result.valid
             /\ \E i \in ViolatedChecks :
                   /\ \A j \in ViolatedChecks : i <= j
                   /\ result.error = CheckOrder[i]

\* A well-signed token that violates the internal marker and later checks.
C9_Witness ==
    /\ Verified
    /\ result.error = "not_internal_token"
    /\ Cardinality(ViolatedChecks) >= 4

WellFormedHeader == TokenHeader.t = "object" /\ Get(TokenHeader, "alg") = JsStr("HS256")
SignatureMismatch ==
    header[3] # SignatureSeg(env.INTERNAL_JWT_SIGNING_KEY, header[1], header[2])

\* C10 as stated: every three-segment token with a well-formed HS256 header
\* whose signature segment is not the keyed hash of header.payload under the
\* configured key fails with invalid_signature.
C10_AnyThreeSegments ==
    (Verified /\ Len(header) = 3 /\ WellFormedHeader /\ SignatureMismatch) =>
        ~result.valid /\ result.error = "invalid_signature"

\* C10 amended: the same for tokens whose three segments are all non-empty;
\* with an empty payload or signature segment the code is missing_parts.
C10_SignatureBeforePayload ==
    (Verified /\ Len(header) = 3 /\ WellFormedHeader /\ SignatureMismatch) =>
        /\ ~result.valid
        /\ IF header[2] = EmptySeg \/ header[3] = EmptySeg
           THEN result.error = "missing_parts"
           ELSE result.error = "invalid_signature"

\* A payload that is no JSON, signed with another key.
C10_Witness ==
    /\ Verified
    /\ header = createTestJwt(HS256Header, GarbageSeg, "k2")
    /\ result.error = "invalid_signature"

ThreeSegments == Len(header) = 3
NoEmptySegment == ThreeSegments /\ \A i \in 1..3 : header[i] # EmptySeg
HeaderIsObject == ThreeSegments /\ TokenHeader.t = "object"
OtherAlgorithm == HeaderIsObject /\ Get(TokenHeader, "alg") # JsStr("HS256")

\* C11 as stated: a header object whose alg is anything but the string HS256
\* (another name, no alg, another case) gives unsupported_algorithm and no
\* call of verifySignature, whatever stands in the signature segment.
C11_AnySignatureSegment ==
    (Verified /\ OtherAlgorithm) =>
        /\ result = Invalid("unsupported_algorithm")
        /\ ~Called("verifySignature")

\* C11 amended: verifySignature is never called for such a header; the code is
\* unsupported_algorithm when the payload and signature segments are
\* non-empty, and missing_parts when one of them is empty.
C11_AlgorithmBeforeSignature ==
    (Verified /\ OtherAlgorithm) =>
        /\ ~Called("verifySignature")
        /\ IF NoEmptySegment
           THEN result = Invalid("unsupported_algorithm")
           ELSE result = Invalid("missing_parts")

\* An RS256 header over a valid payload, with the HMAC of the configured key.
C11_Witness ==
    /\ Verified
    /\ header = createTestJwt(RS256Header, ValidPayload, TEST_SIGNING_KEY)
    /\ result = Invalid("unsupported_algorithm")
    /\ Called("parseBase64UrlJson")

\* C12 as stated: a non-empty first segment that does not decode and parse to
\* a JSON object (no JSON at all, or JSON null, an array, a number, a string,
\* a boolean) gives invalid_header and no other code.
C12_NonObjectHeader ==
    (Verified /\ NoEmptySegment /\ ~HeaderIsObject) =>
        result = Invalid("invalid_header")

\* The token as the checks of verifyInternalJwt see it, one check at a time.
WellSigned ==
    /\ NoEmptySegment
    /\ WellFormedHeader
    /\ header[3] = SignatureSeg(env.INTERNAL_JWT_SIGNING_KEY, header[1], header[2])
PayloadIsObject == TokenPayload.t = "object"
InternalOk == Claim("internal") = JsBool(TRUE)
AudienceOk == Claim("aud") = JsStr(SERVICE_KEY)
IssuedAtOk ==
    /\ Claim("iat").t = "number"
    /\ now - DefaultMaxAgeSeconds <= Claim("iat").n
    /\ Claim("iat").n <= now + DefaultClockSkewSeconds
ExpiresAtOk ==
    /\ Claim("exp").t = "number"
    /\ now < Claim("exp").n + DefaultClockSkewSeconds
RequestIdOk == Claim("requestId").t = "string" /\ Claim("requestId").s # ""

\* The assertion path of the gate let the request through.
AllowedByAssertion ==
    Done /\ handlerRan /\ Returned("verifyInternalJwt", "valid")

\* C13: a token signed with the configured key under HS256 whose claims are
\* the expected audience, internal = true, iat = now, exp = now + 60 and a
\* non-empty requestId is valid, and the payload returned is the token's.
C13_FreshTokenAccepted ==
    (/\ Verified
     /\ WellSigned
     /\ PayloadIsObject
     /\ InternalOk
     /\ AudienceOk
     /\ Claim("iat") = JsNum(now)
     /\ Claim("exp") = JsNum(now + 60)
     /\ RequestIdOk) => result = Valid(TokenPayload)

\* The token issued at the last instant of the model's clock.
C13_Witness ==
    /\ Verified
    /\ now = T0 + MaxTicks
    /\ header = createTestJwt(HS256Header,
           PayloadSeg(JsBool(TRUE), JsStr(SERVICE_KEY), JsNum(now),
                      JsNum(now + 60), JsStr("rid-jwt")), TEST_SIGNING_KEY)
    /\ result.valid
    /\ Get(result.payload, "requestId") = JsStr("rid-jwt")

\* C14: verifyInternalJwt is never valid for a token whose aud is not the
\* expected audience; a correctly signed token with every other claim valid
\* gets audience_mismatch; and the gate never lets a request through by its
\* assertion when the assertion's aud is another service's.
C14_AudienceBinding ==
    /\ (Verified /\ result.valid) => (ThreeSegments /\ AudienceOk)
    /\ (/\ Verified
        /\ WellSigned
        /\ PayloadIsObject
        /\ InternalOk
        /\ ~AudienceOk
        /\ IssuedAtOk
        /\ ExpiresAtOk
        /\ RequestIdOk) => result = Invalid("audience_mismatch")
    /\ AllowedByAssertion => (ThreeSegments /\ AudienceOk)

\* A fresh, correctly signed assertion for doc-service is refused at the gate.
C14_Witness ==
    /\ Done
    /\ header = createTestJwt(HS256Header,
           PayloadSeg(JsBool(TRUE), JsStr("doc-service"), JsNum(T0),
                      JsNum(T0 + 60), JsStr("rid-jwt")), TEST_SIGNING_KEY)
    /\ result = Invalid("audience_mismatch")
    /\ ~handlerRan
    /\ res.status = 403

\* C15: for a token that is valid in everything but possibly its expiry,
\* the result is token_expired exactly when now >= exp + clockSkewSeconds,
\* and the token is valid otherwise: now = exp + skew is rejected,
\* now = exp + skew - 1 is accepted.
C15_ExpiryBoundary ==
    (/\ Verified
     /\ WellSigned
     /\ PayloadIsObject
     /\ InternalOk
     /\ AudienceOk
     /\ IssuedAtOk
     /\ Claim("exp").t = "number"
     /\ RequestIdOk) =>
        IF now >= Claim("exp").n + DefaultClockSkewSeconds
        THEN result = Invalid("token_expired")
        ELSE result = Valid(TokenPayload)

\* The boundary second: now = exp + clockSkewSeconds.
C15_Witness ==
    /\ Verified
    /\ WellSigned
    /\ PayloadIsObject
    /\ IssuedAtOk
    /\ Claim("exp").t = "number"
    /\ now = Claim("exp").n + DefaultClockSkewSeconds
    /\ result = Invalid("token_expired")

\* C16: for a correctly signed token with the internal marker and the
\* expected audience and a numeric iat: iat beyond now + clockSkewSeconds
\* gives iat_future and iat before now - maxAgeSeconds gives iat_too_old,
\* whatever exp is; inside the window the token is valid when exp and
\* requestId are.
C16_IssuedAtWindow ==
    (/\ Verified
     /\ WellSigned
     /\ PayloadIsObject
     /\ InternalOk
     /\ AudienceOk
     /\ Claim("iat").t = "number") =>
        IF Claim("iat").n > now + DefaultClockSkewSeconds
        THEN result = Invalid("iat_future")
        ELSE IF Claim("iat").n < now - DefaultMaxAgeSeconds
        THEN result = Invalid("iat_too_old")
        ELSE (ExpiresAtOk /\ RequestIdOk) => result = Valid(TokenPayload)

\* Issued one second more than the maximum age ago, expiring in the future.
C16_Witness ==
    /\ Verified
    /\ WellSigned
    /\ PayloadIsObject
    /\ Claim("iat") = JsNum(now - DefaultMaxAgeSeconds - 1)
    /\ ExpiresAtOk
    /\ Claim("exp").n > now
    /\ result = Invalid("iat_too_old")

\* C17: a correctly signed token whose other claims are valid and whose
\* requestId is missing, not a string or empty gets missing_request_id; a
\* valid result carries a non-empty requestId, and a request let through by
\* its assertion has that requestId in its context.
C17_RequestIdRequired ==
    /\ (/\ Verified
        /\ WellSigned
        /\ PayloadIsObject
        /\ InternalOk
        /\ AudienceOk
        /\ IssuedAtOk
        /\ ExpiresAtOk
        /\ ~RequestIdOk) => result = Invalid("missing_request_id")
    /\ (Verified /\ result.valid) =>
          /\ Get(result.payload, "requestId").t = "string"
          /\ Get(result.payload, "requestId").s # ""
    /\ AllowedByAssertion =>
          /\ ctx # ""
          /\ JsStr(ctx) = Claim("requestId")

\* A requestId that is a number.
C17_Witness ==
    /\ Verified
    /\ WellSigned
    /\ PayloadIsObject
    /\ Claim("requestId") = JsNum(7)
    /\ result = Invalid("missing_request_id")

ErrorCodes == {CheckOrder[i] : i \in DOMAIN CheckOrder}

\* C18: verifyInternalJwt returns on every token, either valid with the
\* token's payload and no error, or invalid with one code of ErrorCodes and no
\* payload; at the gate a failed verification ends in the 403 response or in
\* the legacy token check, and a request with a JWT-shaped token never ends
\* without the verifier's result.
C18_Total ==
    /\ Verified =>
          /\ result # ThrewTypeError
          /\ IF result.valid
             THEN result.error = "" /\ result.payload = TokenPayload
             ELSE result.error \in ErrorCodes /\ result.payload = NoPayload
    /\ (Done /\ Returned("looksLikeJwt", "true")) =>
          /\ Called("verifyInternalJwt")
          /\ result.valid \/ result.error \in ErrorCodes
    /\ (Done /\ Returned("verifyInternalJwt", "invalid")) =>
          \/ Returned("tokensMatch", "true") /\ handlerRan
          \/ /\ ~handlerRan
             /\ res = createErrorResponse(403, "FORBIDDEN",
                          "Invalid internal auth token", requestId)

\* A correctly signed token whose payload is no JSON, refused at the gate.
C18_Witness ==
    /\ Done
    /\ header = createTestJwt(HS256Header, GarbageSeg, TEST_SIGNING_KEY)
    /\ result = Invalid("invalid_payload")
    /\ res.status = 403

\* The first segment decodes to the text of a JSON object with a string alg.
HeaderObjectWithStringAlg ==
    /\ base64UrlDecodeJson(header[1]).t = "object"
    /\ base64UrlDecodeJson(header[1]).f["alg"].t = "string"

\* C19: looksLikeJwt returns, and returns true exactly for a token of three
\* segments whose first segment decodes and parses to a JSON object with a
\* string alg; the gate gets that answer for every token it asks about.
C19_LooksLikeJwt ==
    /\ looksLikeJwt(header) \in BOOLEAN
    /\ looksLikeJwt(header) <=> (ThreeSegments /\ HeaderObjectWithStringAlg)
    /\ (Done /\ Called("looksLikeJwt")) =>
          IF ThreeSegments /\ HeaderObjectWithStringAlg
          THEN Returned("looksLikeJwt", "true")
          ELSE Returned("looksLikeJwt", "false")

\* A three-segment token whose header object has no alg: not JWT-shaped.
C19_Witness ==
    /\ Done
    /\ ThreeSegments
    /\ header[1] = NoAlgHeader
    /\ Returned("looksLikeJwt", "false")
    /\ ~Called("verifyInternalJwt")

----------------------------------------------------------------------------
(* The configuration over the life of the process, checked under SpecEnv *)

\* What the gate decides for this request under a configuration.
Decision(e) ==
    LET out == Gate(e, header, Undefined, now, "gen-1")
    IN  [status |-> out.res.status, next |-> out.next]

\* C20 as stated: the configuration is bound when the process starts, so the
\* decision on every request is the one the start configuration gives for
\* its credential and time, whatever was written to process.env since.
C20_BoundAtStart ==
    Done => [status |-> res.status, next |-> handlerRan] = Decision(startEnv)

----------------------------------------------------------------------------
(* Requests handled at the same time, checked under SpecConc *)

\* The outcome of the request's gate evaluation when nothing else is in flight.
Alone(q) ==
    Outcome(Gate(env, q.header, q.ctx, q.at,
                 IF q.fresh = "" THEN "gen-1" ELSE q.fresh))

----------------------------------------------------------------------------
(* What the gate says about a request, checked under Spec *)

\* The strings in a token: the text of its segments and the string values of
\* the claims in its second segment.
StringsOf(tok) ==
    {tok[i].txt : i \in DOMAIN tok}
    \cup (IF Len(tok) >= 2
          THEN {Get(parseBase64UrlJson(tok[2]), name).s : name \in FieldNames}
          ELSE {})

\* The presented credential, the signing key, the legacy secret and the claim
\* values of the presented assertion.
SecretStrings ==
    (StringsOf(header) \cup StringsOf(env.INTERNAL_SERVICE_TOKEN)
        \cup {env.INTERNAL_JWT_SIGNING_KEY}) \ {"", Undefined}

LogMessages ==
    {"Misconfigured: INTERNAL_AUTH_MODE=jwt but INTERNAL_JWT_SIGNING_KEY is not set",
     "Misconfigured: No signing key or token set",
     "Rejected: missing token header",
     "JWT verification failed",
     "Rejected: invalid token"}
ResponseCodes == {"INTERNAL_ERROR", "UNAUTHORIZED", "FORBIDDEN"}
ResponseMessages ==
    {"Internal auth misconfigured", "Missing internal auth token",
     "Invalid internal auth token"}

\* C22: when the middleware is done, every log entry is one of the fixed
\* messages with the request's own id, an error code of the verifier or
\* nothing as reason and the auth mode or nothing; the response, if any, is a
\* fixed code and message with the same id; and none of these fields is the
\* presented credential, the signing key, the legacy secret or a claim value
\* of the presented assertion.
C22_NothingSecretSaid ==
    Done =>
        /\ requestId \in {"ctx-1"} \cup GeneratedIds
        /\ \A i \in DOMAIN logs :
              /\ logs[i].level \in {"warn", "error"}
              /\ logs[i].msg \in LogMessages
              /\ logs[i].requestId = requestId
              /\ logs[i].reason \in ErrorCodes \cup {""}
              /\ logs[i].authMode \in {"", "hybrid", "jwt"}
              /\ {logs[i].msg, logs[i].requestId, logs[i].reason,
                  logs[i].authMode} \cap SecretStrings = {}
        /\ \/ res = NoResponse
           \/ /\ res.code \in ResponseCodes
              /\ res.message \in ResponseMessages
              /\ res.requestId = requestId
              /\ {res.code, res.message, res.requestId} \cap SecretStrings = {}

\* A correctly signed assertion for another service, rejected and logged.
C22_Witness ==
    /\ Done
    /\ header = OtherAudJwt
    /\ "doc-service" \in SecretStrings
    /\ Len(logs) = 2
    /\ logs[1].reason = "audience_mismatch"
    /\ res.status = 403

\* C23: the response to a request under an unusable configuration is the
\* same in strict mode without a signing key and in hybrid mode with neither
\* secret: status 500, code INTERNAL_ERROR, one fixed message and the
\* request's id; the credential has not been read when it is produced.
C23_MisconfiguredAlike ==
    (Done /\ ConfigUnusable) =>
        /\ res = createErrorResponse(500, "INTERNAL_ERROR",
                     "Internal auth misconfigured", requestId)
        /\ ~Called("c.req.header")
        /\ NoVerifierRan
        /\ ~handlerRan

\* Hybrid mode with neither secret, asked with a valid assertion.
C23_Witness ==
    /\ Done
    /\ HybridMode
    /\ ConfigUnusable
    /\ header = ValidJwt
    /\ res.status = 500

----------------------------------------------------------------------------
(* The comparison of secrets, checked under SpecVerify *)

\* C24 as stated, for the assertion signature: whenever verifySignature is
\* called it compares in constant time, whatever the length of the signature
\* segment it was given.
C24_NoLengthBranch ==
    (Verified /\ Called("verifySignature")) => Called("timingSafeEqual")

----------------------------------------------------------------------------
(* The retention scheduler, checked under SpecRetention *)

RunCalled(run, op) == \E k \in DOMAIN run.calls : run.calls[k].op = op
RunReturned(run, op, ret) ==
    \E k \in DOMAIN run.calls : run.calls[k] = HelperCall(op, ret)
CallCount(run, op) ==
    Cardinality({k \in DOMAIN run.calls : run.calls[k].op = op})
RunEnded(run) == run.pc = "ended"
InProgress(run) == run.pc \in {"acquiring", "deleting", "releasing"}
GotLock(run) == RunReturned(run, "tryAcquireLock", "true")

\* C25: a run calls deleteOlderThan if and only if its tryAcquireLock
\* returned true; a run that did not get the lock (false, or the query
\* failed) ends without a delete and without an unlock.
C25_PruneOnlyWithLock ==
    \A i \in DOMAIN runs :
        /\ runs[i].pc \in {"deleting", "releasing"} => GotLock(runs[i])
        /\ RunCalled(runs[i], "deleteOlderThan") => GotLock(runs[i])
        /\ RunEnded(runs[i]) =>
              /\ RunCalled(runs[i], "deleteOlderThan") <=> GotLock(runs[i])
              /\ ~GotLock(runs[i]) => ~RunCalled(runs[i], "releaseLock")

\* The first run found the lock taken; a later run got it and pruned.
C25_Witness ==
    /\ Len(runs) >= 2
    /\ runs[1].calls = <<HelperCall("tryAcquireLock", "false")>>
    /\ RunEnded(runs[1])
    /\ RunEnded(runs[2])
    /\ RunReturned(runs[2], "deleteOlderThan", "ok")

\* C26: a run that got the lock has released it exactly once when it ends,
\* as its last call, whether the delete succeeded or failed; a failed delete
\* and a failed unlock are each logged, and the promise of runNow resolves.
C26_UnlockOnce ==
    \A i \in DOMAIN runs :
        /\ runs[i].settled # "rejected"
        /\ RunEnded(runs[i]) =>
              /\ runs[i].settled = "resolved"
              /\ CallCount(runs[i], "releaseLock") = IF GotLock(runs[i]) THEN 1 ELSE 0
              /\ GotLock(runs[i]) =>
                    runs[i].calls[Len(runs[i].calls)].op = "releaseLock"
              /\ RunReturned(runs[i], "deleteOlderThan", "throws") =>
                    \E k \in DOMAIN runs[i].logged : runs[i].logged[k] = "prune failed"
              /\ RunReturned(runs[i], "releaseLock", "throws") =>
                    \E k \in DOMAIN runs[i].logged :
                        runs[i].logged[k] = "advisory unlock failed"

\* The delete failed and the unlock failed as well.
C26_Witness ==
    /\ RunEnded(runs[1])
    /\ runs[1].calls = <<HelperCall("tryAcquireLock", "true"),
                         HelperCall("deleteOlderThan", "throws"),
                         HelperCall("releaseLock", "throws")>>
    /\ runs[1].logged = <<"prune failed", "advisory unlock failed">>
    /\ ~running

RunsInProgress == {i \in DOMAIN runs : InProgress(runs[i])}
Started == Len(runs') = Len(runs) + 1
Newest == runs'[Len(runs')]

\* C30: at most one run of a scheduler is in progress; the running flag is
\* set exactly while one is, so it is cleared however the run ends; a runNow
\* that starts while the flag is set returns without a call and leaves the
\* flag, one that starts while it is clear becomes the run in progress;
\* after stop() only manual runs start, and stop() changes neither the runs
\* nor the flag.
C30_NoOverlap ==
    /\ [](/\ Cardinality(RunsInProgress) <= 1
          /\ running <=> RunsInProgress # {}
          /\ \A i \in DOMAIN runs :
                runs[i].pc = "skipped" =>
                    runs[i].calls = <<>> /\ runs[i].logged = <<>>)
    /\ [][/\ (Started /\ running) => (Newest.pc = "skipped" /\ running')
          /\ (Started /\ ~running) => (Newest.pc = "acquiring" /\ running')
          /\ (Started /\ ~timer) => Newest.trigger = "manual"
          /\ (timer # timer') => (~timer' /\ runs' = runs /\ running' = running)]_vars

\* A manual runNow was skipped during the first run; after that run ended,
\* the timer started the next one.
C30_Witness ==
    /\ Len(runs) = 3
    /\ RunEnded(runs[1])
    /\ runs[2].pc = "skipped"
    /\ runs[2].trigger = "manual"
    /\ runs[3].trigger = "timer"
    /\ InProgress(runs[3])
    /\ running

----------------------------------------------------------------------------
(* Validity of one token over time, checked under SpecVerify *)

Times == T0..(T0 + MaxTicks)
VerifyAt(t) ==
    verifyInternalJwt(header, env.INTERNAL_JWT_SIGNING_KEY, Options(SERVICE_KEY, t))

\* C27: a token rejected now with token_expired or iat_too_old is rejected at
\* every later time; a token valid now is so no earlier than
\* iat - clockSkewSeconds and no later than iat + maxAgeSeconds and
\* exp + clockSkewSeconds - 1; and between two times at which the token is
\* valid it is valid.
C27_MonotoneValidity ==
    Verified =>
        /\ result.error \in {"token_expired", "iat_too_old"} =>
              \A t \in Times : t >= now => ~VerifyAt(t).valid
        /\ result.valid =>
              /\ now >= Claim("iat").n - DefaultClockSkewSeconds
              /\ now <= Claim("iat").n + DefaultMaxAgeSeconds
              /\ now <= Claim("exp").n + DefaultClockSkewSeconds - 1
              /\ \A t1, t2 \in Times :
                    (t1 <= now /\ now <= t2 /\ VerifyAt(t1).valid /\ VerifyAt(t2).valid)
                        => \A t \in t1..t2 : VerifyAt(t).valid

\* A token that was valid at T0 and has expired since.
C27_Witness ==
    /\ Verified
    /\ now = T0 + MaxTicks
    /\ VerifyAt(T0).valid
    /\ result = Invalid("token_expired")

----------------------------------------------------------------------------
(* The context and the mode flag, checked under Spec *)

MiddlewareStep == pc = "pending" /\ pc' = "done"
VerifiedValid == Returned("verifyInternalJwt", "valid")

\* C28: in a step of the middleware the context's requestId changes only
\* when verifyInternalJwt returned valid, and then to the token's requestId;
\* when verification failed or did not run, also when the legacy comparison
\* then let the request through, the context keeps what it had; a response
\* of the middleware carries the id the context had or, when it had none, a
\* generated one.
C28_UnverifiedClaimsStayOut ==
    [][MiddlewareStep =>
          /\ ctx' # ctx => (VerifiedValid' /\ JsStr(ctx') = Claim("requestId"))
          /\ ~VerifiedValid' => ctx' = ctx
          /\ res'.status # 0 =>
                IF FalsyStr(ctx)
                THEN res'.requestId \in GeneratedIds
                ELSE res'.requestId = ctx]_vars

\* A token with a requestId claim failed verification and then matched the
\* legacy secret: the handler runs and the context has no requestId.
C28_Witness ==
    /\ Done
    /\ header = OtherKeyJwt
    /\ Returned("verifyInternalJwt", "invalid")
    /\ Returned("tokensMatch", "true")
    /\ handlerRan
    /\ ctx = Undefined

\* C29: with any INTERNAL_AUTH_MODE other than the exact value jwt, a
\* credential equal to the configured legacy secret is let through; with jwt
\* the legacy secret is never compared.
C29_StrictOnlyForJwt ==
    /\ (Done /\ env.INTERNAL_AUTH_MODE # "jwt" /\ EqualsLegacySecret) =>
          handlerRan /\ res = NoResponse
    /\ (Done /\ env.INTERNAL_AUTH_MODE = "jwt") => ~Called("tokensMatch")

\* INTERNAL_AUTH_MODE=JWT is hybrid: the legacy secret opens the gate.
C29_Witness ==
    /\ Done
    /\ env.INTERNAL_AUTH_MODE = "JWT"
    /\ header = Secret1
    /\ Returned("tokensMatch", "true")
    /\ handlerRan
====
